---------------------------- MODULE Spec2Model ----------------------------
(***************************************************************************)
(* Model of the Snowflake ID generator of polaris1119/snowflake            *)
(* (src/snowflake.go): the SnowFlake struct, NewWith, and NextID split     *)
(* into the steps at which goroutines can interleave.                      *)
(*                                                                         *)
(* Go's int64 does not fit TLC's integers, so an int64 is a triple         *)
(* <<hi, mid, lo>> of limbs of 20, 22 and 22 bits in two's complement:     *)
(* value = hi * 2^44 + mid * 2^22 + lo, negative when bit 19 of hi is set. *)
(***************************************************************************)
EXTENDS Integers, Sequences, FiniteSets, TLC

(***************************************************************************)
(* Program constants (src/snowflake.go:19-27).                             *)
(***************************************************************************)
sequenceMask == 2^12 - 1

workerMask == 2^5 - 1

dataCenterMask == 2^5 - 1

workerLeftShift == 12

\* dataCenterLeftShift with a slip of one bit
dataCenterLeftShiftLow == 17 - 1

dataCenterLeftShift == 17

\* timestampLeftShift with a slip of one bit
timestampLeftShiftWide == 22 + 1

timestampLeftShift == 22

(***************************************************************************)
(* Bounds of the model.                                                    *)
(***************************************************************************)
\* goroutines calling NextID on generator 1
NThreads == 2

\* calls to NextID in a run whose returned IDs are all remembered
MaxCalls == 3

\* consecutive millisecond values the clocks can report (besides far ones)
MaxTick == 2

\* interface addresses of a host
MaxAddrs == 2

(***************************************************************************)
(* 64-bit two's complement integers as limbs.                              *)
(***************************************************************************)
Limb == 2^22

HiLimb == 2^20

Int64 == (0 .. HiLimb - 1) \X (0 .. Limb - 1) \X (0 .. Limb - 1)

I64(n) == <<0, 0, n>>

I64Zero == I64(0)

I64Neg(a) == a[1] >= HiLimb \div 2

\* signed a < b
I64Lt(a, b) ==
    IF I64Neg(a) # I64Neg(b) THEN I64Neg(a)
    ELSE \/ a[1] < b[1]
         \/ a[1] = b[1] /\ a[2] < b[2]
         \/ a[1] = b[1] /\ a[2] = b[2] /\ a[3] < b[3]

I64Le(a, b) == a = b \/ I64Lt(a, b)

\* a + b, wrapping at 2^64
I64Add(a, b) ==
    LET lo == a[3] + b[3]
        mid == a[2] + b[2] + lo \div Limb
        hi == a[1] + b[1] + mid \div Limb
    IN  <<hi % HiLimb, mid % Limb, lo % Limb>>

\* a - b, wrapping at 2^64
I64Sub(a, b) ==
    LET lo == a[3] - b[3]
        bl == IF lo < 0 THEN 1 ELSE 0
        mid == a[2] - b[2] - bl
        bm == IF mid < 0 THEN 1 ELSE 0
        hi == a[1] - b[1] - bm
    IN  <<hi % HiLimb, mid % Limb, lo % Limb>>

\* a << 1, the top bit lost
I64Shl1(a) ==
    LET lo == 2 * a[3]
        mid == 2 * a[2] + lo \div Limb
        hi == 2 * a[1] + mid \div Limb
    IN  <<hi % HiLimb, mid % Limb, lo % Limb>>

RECURSIVE I64Shl(_, _)
\* a << n
I64Shl(a, n) == IF n = 0 THEN a ELSE I64Shl(I64Shl1(a), n - 1)

\* int64(n) for a natural n below 2^31
I64Of(n) == <<0, n \div Limb, n % Limb>>

RECURSIVE I64Times(_, _)
\* a * n for a natural n, wrapping at 2^64
I64Times(a, n) ==
    IF n = 0 THEN I64Zero
    ELSE LET h == I64Shl1(I64Times(a, n \div 2))
         IN  IF n % 2 = 1 THEN I64Add(h, a) ELSE h

RECURSIVE BitOr(_, _)
\* x | y on naturals
BitOr(x, y) ==
    IF x = 0 THEN y
    ELSE IF y = 0 THEN x
    ELSE (IF x % 2 = 1 \/ y % 2 = 1 THEN 1 ELSE 0)
         + 2 * BitOr(x \div 2, y \div 2)

RECURSIVE BitAnd(_, _)
\* x & y on naturals
BitAnd(x, y) ==
    IF x = 0 \/ y = 0 THEN 0
    ELSE (IF x % 2 = 1 /\ y % 2 = 1 THEN 1 ELSE 0)
         + 2 * BitAnd(x \div 2, y \div 2)

\* a | b
I64Or(a, b) == <<BitOr(a[1], b[1]), BitOr(a[2], b[2]), BitOr(a[3], b[3])>>


(***************************************************************************)
(* Time: millisecond values as the UnixNano()/1e6 of the code yields them. *)
(***************************************************************************)
\* bits of the timestamp field of an ID (src/snowflake.go:6)
TimestampBits == 41

\* a millisecond of the year 2023, just below a carry between limbs
Epoch0 == <<0, 405311, Limb - 2>>

Ms(k) == I64Add(Epoch0, I64(k))

\* 2^TimestampBits milliseconds
Span == <<0, 2^(TimestampBits - 22), 0>>

NearClock == {Ms(k) : k \in 1 .. MaxTick}

\* the last millisecond that fits the timestamp field from Epoch0, and the next
FarClock == {I64Sub(I64Add(Epoch0, Span), I64(1)), I64Add(Epoch0, Span)}

ClockVals == NearClock \cup FarClock

Epochs == {Ms(0), Ms(2)}

(***************************************************************************)
(* Generators, goroutines, and the state.                                  *)
(***************************************************************************)
Gens == {1, 2}

\* the goroutine that calls NextID on generator 2
Peer == NThreads + 1

Threads == 1 .. Peer

GenOf(t) == IF t = Peer THEN 2 ELSE 1

NoID == <<>>

NoStr == [start_time |-> I64Zero, data_center |-> 0, worker_id |-> 0,
          sequence |-> 0]

NoOut == [kind |-> "none", id |-> I64Zero, ms |-> I64Zero, seq |-> 0]

VARIABLES
    sf,           \* sf[g]: the SnowFlake struct of generator g
    clock,        \* clock[g]: the millisecond time.Now() reports on g's host
    pc,           \* pc[t]: where goroutine t is in NextID
    millisecond,  \* millisecond[t]: NextID's local millisecond
    sequence,     \* sequence[t]: NextID's local sequence
    mayRead,      \* mayRead[t]: what the unlocked read of lastTimestamp may see
    out,          \* out[t]: what t's last finished call gave its caller
    returned,     \* returned[g]: the IDs g returned, in order (remembered runs)
    calls,        \* calls started so far in a remembered run
    lastRet,      \* lastRet[g]: the ID g returned last
    olderMax,     \* olderMax[g]: the greatest ID g returned before lastRet[g]
    burst,        \* burst[g]: consecutive calls that read the same clock value
    chk,          \* chk[t]: <<lastTimestamp, sequence>> at t's comparison
    atRead,       \* atRead[t]: the clock reading, lastTimestamp and the number
                  \* of IDs returned when t's call read the clock
    maySeq,       \* maySeq[t]: values an unlocked read of s.sequence may see
    str,          \* what the last call of String printed
    built         \* built[g]: the call that constructed generator g

vars == <<sf, clock, pc, millisecond, sequence, mayRead, out, returned, calls,
          lastRet, olderMax, burst, chk, atRead, maySeq, str, built>>

\* what neither NextID nor the clock touches
still == <<str, built>>

ghosts == <<lastRet, olderMax, burst, chk, atRead>>

(***************************************************************************)
(* Construction (src/snowflake.go:44-62).  host is what machineID()        *)
(* returns on the constructing host.                                       *)
(***************************************************************************)
\* NewWith without the masks of lines 57-58
NewWithUnmasked(startTime, ids, host) ==
    LET idLen == Len(ids)
        dataCenterID == IF idLen >= 2 THEN ids[1]
                        ELSE IF idLen = 1 THEN ids[1] ELSE host[1]
        workerID == IF idLen >= 2 THEN ids[2]
                    ELSE IF idLen = 1 THEN ids[1] ELSE host[2]
    IN  [mutex |-> 0,
         sequence |-> 0,
         dataCenterID |-> dataCenterID,
         workerID |-> workerID,
         lastTimestamp |-> I64Zero,
         startTime |-> startTime]

\* NewWith taking the workerID of a single value from the host
NewWithOneField(startTime, ids, host) ==
    LET idLen == Len(ids)
        dataCenterID == IF idLen >= 2 THEN ids[1]
                        ELSE IF idLen = 1 THEN ids[1] ELSE host[1]
        workerID == IF idLen >= 2 THEN ids[2] ELSE host[2]
    IN  [mutex |-> 0,
         sequence |-> 0,
         dataCenterID |-> BitAnd(dataCenterID, dataCenterMask),
         workerID |-> BitAnd(workerID, workerMask),
         lastTimestamp |-> I64Zero,
         startTime |-> startTime]

NewWith(startTime, ids, host) ==
    LET idLen == Len(ids)
        dataCenterID == IF idLen >= 2 THEN ids[1]
                        ELSE IF idLen = 1 THEN ids[1] ELSE host[1]
        workerID == IF idLen >= 2 THEN ids[2]
                    ELSE IF idLen = 1 THEN ids[1] ELSE host[2]
    IN  [mutex |-> 0,
         sequence |-> 0,
         dataCenterID |-> BitAnd(dataCenterID, dataCenterMask),
         workerID |-> BitAnd(workerID, workerMask),
         lastTimestamp |-> I64Zero,
         startTime |-> startTime]

(***************************************************************************)
(* machineID (src/snowflake.go:112-131).  An IP is its 4 or 16 bytes (nil  *)
(* is <<>>); lookup is what net.InterfaceAddrs() returns: an error, or the *)
(* addresses in order, each with whether it is a *net.IPNet.               *)
(***************************************************************************)
\* net.IP.To4
To4(ip) ==
    IF Len(ip) = 4 THEN ip
    ELSE IF /\ Len(ip) = 16
            /\ \A i \in 1 .. 10 : ip[i] = 0
            /\ ip[11] = 255
            /\ ip[12] = 255
         THEN SubSeq(ip, 13, 16)
         ELSE <<>>

IPv6loopback == <<0, 0, 0, 0, 0, 0, 0, 0, 0, 0, 0, 0, 0, 0, 0, 1>>

\* net.IP.IsLoopback
IsLoopback(ip) ==
    IF To4(ip) # <<>> THEN To4(ip)[1] = 127 ELSE ip = IPv6loopback

RECURSIVE ScanAddrsNoSkip(_, _)
\* the loop without the IsLoopback test of line 120
ScanAddrsNoSkip(as, i) ==
    IF i > Len(as) THEN <<0, 0>>
    ELSE IF ~as[i].ipnet THEN ScanAddrsNoSkip(as, i + 1)
    ELSE LET ip == To4(as[i].ip)
         IN  IF ip # <<>> THEN <<ip[3], ip[4]>>
             ELSE ScanAddrsNoSkip(as, i + 1)

RECURSIVE ScanAddrs(_, _)
\* lines 118-130: the loop over the addresses, from the i-th on
ScanAddrs(as, i) ==
    IF i > Len(as) THEN <<0, 0>>
    ELSE IF ~as[i].ipnet \/ IsLoopback(as[i].ip) THEN ScanAddrs(as, i + 1)
    ELSE LET ip == To4(as[i].ip)
         IN  IF ip # <<>> THEN <<ip[3], ip[4]>> ELSE ScanAddrs(as, i + 1)

machineID(lookup) ==
    IF lookup.err THEN <<0, 0>> ELSE ScanAddrs(lookup.addrs, 1)

(***************************************************************************)
(* New (src/snowflake.go:64-69).  An instant is <<day, ms>>: the days      *)
(* since 1970-01-01 UTC and the milliseconds into that day; zone is the    *)
(* offset of the host's time zone, in milliseconds east of UTC.  A         *)
(* calendar date is the number of its day.                                 *)
(***************************************************************************)
HourMs == 60 * 60 * 1000

DayMs == 24 * HourMs

\* t.UnixNano() / 1e6
UnixMs(inst) == I64Add(I64Times(I64Of(DayMs), inst[1]), I64Of(inst[2]))

\* now.Year(), now.Month(), now.Day() of a time.Now() in the zone
LocalDate(now, zone) == now[1] + ((now[2] + zone) \div DayMs)

\* time.Date(year, month, day, 0, 0, 0, 0, time.UTC)
DateUTC(date) == <<date, 0>>

New(now, zone, lookup) ==
    LET startTime == DateUTC(LocalDate(now, zone))
        host == machineID(lookup)
    IN  NewWith(UnixMs(startTime), <<host[1], host[2]>>, host)

\* time.Now().UTC().UnixNano() / 1e6 on the host of generator g
genMillisecond(g) == clock[g]

\* MakeID with the shift of the workerID forgotten
MakeIDWorkerUnshifted(s, ms, seq) ==
    LET elaspedMillisecond == I64Sub(ms, s.startTime)
    IN  I64Or(I64Or(I64Or(I64Shl(elaspedMillisecond, timestampLeftShift),
                          I64Shl(I64(s.dataCenterID), dataCenterLeftShift)),
                    I64(s.workerID)),
              I64(seq))

\* the value NextID returns (src/snowflake.go:99-104)
MakeID(s, ms, seq) ==
    LET elaspedMillisecond == I64Sub(ms, s.startTime)
    IN  I64Or(I64Or(I64Or(I64Shl(elaspedMillisecond, timestampLeftShift),
                          I64Shl(I64(s.dataCenterID), dataCenterLeftShift)),
                    I64Shl(I64(s.workerID), workerLeftShift)),
              I64(seq))

\* the greater of two IDs, either of which may be NoID
MaxID(a, b) == IF a = NoID THEN b ELSE IF b = NoID THEN a
               ELSE IF I64Lt(a, b) THEN b ELSE a

(***************************************************************************)
(* NextID (src/snowflake.go:72-105), one action per step at which another  *)
(* goroutine can run.  t calls NextID on generator GenOf(t).               *)
(***************************************************************************)
\* lines 73-74: read the clock.  A remembered run starts at most MaxCalls calls.
ReadClock(t, remember) ==
    LET g == GenOf(t)
        now == genMillisecond(g)
    IN  /\ pc[t] = "idle"
        /\ remember => calls < MaxCalls
        /\ millisecond' = [millisecond EXCEPT ![t] = now]
        /\ pc' = [pc EXCEPT ![t] = "check"]
        /\ calls' = IF remember THEN calls + 1 ELSE calls
        /\ atRead' = [atRead EXCEPT ![t] =
                [ms |-> now, last |-> sf[g].lastTimestamp,
                 nret |-> Len(returned[g])]]
        /\ burst' = [burst EXCEPT ![g] =
                IF now = burst[g].ms
                THEN [burst[g] EXCEPT
                        !.n = IF @ > sequenceMask + 2 THEN @ ELSE @ + 1]
                ELSE [ms |-> now, n |-> 1,
                      fresh |-> I64Lt(sf[g].lastTimestamp, now)]]
        /\ UNCHANGED <<still, maySeq, sf, clock, sequence, mayRead, out,
                       returned, lastRet, olderMax, chk>>

\* Compare with the test against lastTimestamp left out
CompareNoPanic(t) ==
    LET g == GenOf(t)
    IN  /\ pc[t] = "check"
        /\ pc' = [pc EXCEPT ![t] = "lock"]
        /\ chk' = [chk EXCEPT ![t] = <<sf[g].lastTimestamp, sf[g].sequence>>]
        /\ UNCHANGED <<still, maySeq, sf, clock, millisecond, sequence,
                       mayRead, out, returned, calls, lastRet, olderMax,
                       burst, atRead>>

\* Compare taking the mutex before the test and keeping it in the panic
ComparePanicLocked(t) ==
    LET g == GenOf(t)
    IN  /\ pc[t] = "check"
        /\ \E seen \in mayRead[t] :
              IF I64Lt(millisecond[t], seen)
              THEN /\ pc' = [pc EXCEPT ![t] = "idle"]
                   /\ out' = [out EXCEPT ![t] =
                          [kind |-> "panic", id |-> I64Zero,
                           ms |-> millisecond[t], seq |-> 0]]
                   /\ sf' = [sf EXCEPT ![g].mutex = t]
              ELSE /\ pc' = [pc EXCEPT ![t] = "lock"]
                   /\ out' = out
                   /\ sf' = sf
        /\ chk' = [chk EXCEPT ![t] = <<sf[g].lastTimestamp, sf[g].sequence>>]
        /\ UNCHANGED <<still, maySeq, clock, millisecond, sequence,
                       mayRead, returned, calls, lastRet, olderMax, burst,
                       atRead>>

\* lines 75-77: the comparison, made without the mutex.  The read of
\* lastTimestamp races with the writes of line 94: it sees any value of mayRead.
Compare(t) ==
    LET g == GenOf(t)
    IN  /\ pc[t] = "check"
        /\ \E seen \in mayRead[t] :
              IF I64Lt(millisecond[t], seen)
              THEN /\ pc' = [pc EXCEPT ![t] = "idle"]
                   /\ out' = [out EXCEPT ![t] =
                          [kind |-> "panic", id |-> I64Zero,
                           ms |-> millisecond[t], seq |-> 0]]
              ELSE /\ pc' = [pc EXCEPT ![t] = "lock"]
                   /\ out' = out
        /\ chk' = [chk EXCEPT ![t] = <<sf[g].lastTimestamp, sf[g].sequence>>]
        /\ UNCHANGED <<still, maySeq, sf, clock, millisecond, sequence,
                       mayRead, returned, calls, lastRet, olderMax, burst,
                       atRead>>

\* Lock that does not wait for the mutex to be free
LockNoWait(t) ==
    LET g == GenOf(t)
    IN  /\ pc[t] = "lock"
        /\ sf' = [sf EXCEPT ![g].mutex = t]
        /\ mayRead' = [mayRead EXCEPT ![t] = {sf[g].lastTimestamp}]
        /\ maySeq' = [maySeq EXCEPT ![t] = {sf[g].sequence}]
        /\ pc' = [pc EXCEPT ![t] = "update"]
        /\ UNCHANGED <<still, clock, millisecond, sequence, out, returned,
                       calls, ghosts>>

\* line 79: s.mutex.Lock().  Acquiring orders t after every earlier holder.
Lock(t) ==
    LET g == GenOf(t)
    IN  /\ pc[t] = "lock"
        /\ sf[g].mutex = 0
        /\ sf' = [sf EXCEPT ![g].mutex = t]
        /\ mayRead' = [mayRead EXCEPT ![t] = {sf[g].lastTimestamp}]
        /\ maySeq' = [maySeq EXCEPT ![t] = {sf[g].sequence}]
        /\ pc' = [pc EXCEPT ![t] = "update"]
        /\ UNCHANGED <<still, clock, millisecond, sequence, out, returned,
                       calls, ghosts>>

\* Update with the increment of the same-millisecond path forgotten
UpdateNoInc(t) ==
    LET g == GenOf(t)
    IN  /\ pc[t] = "update"
        /\ IF millisecond[t] = sf[g].lastTimestamp
           THEN sf' = sf
           ELSE sf' = [sf EXCEPT ![g].sequence = 0]
        /\ pc' = [pc EXCEPT ![t] = "store"]
        /\ maySeq' = [u \in DOMAIN maySeq |->
                IF u = t THEN {sf'[g].sequence}
                ELSE IF GenOf(u) = g THEN maySeq[u] \cup {sf'[g].sequence}
                ELSE maySeq[u]]
        /\ UNCHANGED <<still, clock, millisecond, sequence, mayRead, out,
                       returned, calls, ghosts>>

\* lines 82-93: the sequence update
Update(t) ==
    LET g == GenOf(t)
        inc == BitAnd(sf[g].sequence + 1, sequenceMask)
    IN  /\ pc[t] = "update"
        /\ IF millisecond[t] = sf[g].lastTimestamp
           THEN /\ sf' = [sf EXCEPT ![g].sequence = inc]
                /\ pc' = [pc EXCEPT ![t] = IF inc = 0 THEN "spin" ELSE "store"]
           ELSE /\ sf' = [sf EXCEPT ![g].sequence = 0]
                /\ pc' = [pc EXCEPT ![t] = "store"]
        /\ maySeq' = [u \in DOMAIN maySeq |->
                IF u = t THEN {sf'[g].sequence}
                ELSE IF GenOf(u) = g THEN maySeq[u] \cup {sf'[g].sequence}
                ELSE maySeq[u]]
        /\ UNCHANGED <<still, clock, millisecond, sequence, mayRead, out,
                       returned, calls, ghosts>>

\* Spin without the wait for the next millisecond
SpinNoWait(t) ==
    /\ pc[t] = "spin"
    /\ pc' = [pc EXCEPT ![t] = "store"]
    /\ UNCHANGED <<still, maySeq, sf, clock, millisecond, sequence, mayRead,
                   out, returned, calls, ghosts>>

\* lines 86-88: one test of the busy-wait loop, and one iteration if it holds
Spin(t) ==
    LET g == GenOf(t)
    IN  /\ pc[t] = "spin"
        /\ IF I64Le(millisecond[t], sf[g].lastTimestamp)
           THEN /\ millisecond' = [millisecond EXCEPT ![t] = genMillisecond(g)]
                /\ pc' = pc
           ELSE /\ millisecond' = millisecond
                /\ pc' = [pc EXCEPT ![t] = "store"]
        /\ UNCHANGED <<still, maySeq, sf, clock, sequence, mayRead, out,
                       returned, calls, ghosts>>

\* StoreUnlock without the Unlock of line 97
StoreNoUnlock(t) ==
    LET g == GenOf(t)
    IN  /\ pc[t] = "store"
        /\ sf' = [sf EXCEPT ![g].lastTimestamp = millisecond[t]]
        /\ sequence' = [sequence EXCEPT ![t] = sf[g].sequence]
        /\ mayRead' = [u \in DOMAIN mayRead |->
                IF u = t THEN {millisecond[t]}
                ELSE IF GenOf(u) = g THEN mayRead[u] \cup {millisecond[t]}
                ELSE mayRead[u]]
        /\ pc' = [pc EXCEPT ![t] = "ret"]
        /\ UNCHANGED <<still, maySeq, clock, millisecond, out, returned,
                       calls, ghosts>>

\* lines 94-97: store lastTimestamp, capture sequence, s.mutex.Unlock()
StoreUnlock(t) ==
    LET g == GenOf(t)
    IN  /\ pc[t] = "store"
        /\ sf' = [sf EXCEPT ![g].lastTimestamp = millisecond[t],
                            ![g].mutex = 0]
        /\ sequence' = [sequence EXCEPT ![t] = sf[g].sequence]
        /\ mayRead' = [u \in DOMAIN mayRead |->
                IF u = t THEN {millisecond[t]}
                ELSE IF GenOf(u) = g THEN mayRead[u] \cup {millisecond[t]}
                ELSE mayRead[u]]
        /\ pc' = [pc EXCEPT ![t] = "ret"]
        /\ UNCHANGED <<still, maySeq, clock, millisecond, out, returned,
                       calls, ghosts>>

\* lines 99-104: assemble and return the ID
Return(t, remember) ==
    LET g == GenOf(t)
        id == MakeID(sf[g], millisecond[t], sequence[t])
    IN  /\ pc[t] = "ret"
        /\ out' = [out EXCEPT ![t] =
                [kind |-> "id", id |-> id, ms |-> millisecond[t],
                 seq |-> sequence[t]]]
        /\ returned' = IF remember
                       THEN [returned EXCEPT ![g] = Append(@, id)]
                       ELSE returned
        /\ olderMax' = [olderMax EXCEPT ![g] = MaxID(@, lastRet[g])]
        /\ lastRet' = [lastRet EXCEPT ![g] = id]
        /\ pc' = [pc EXCEPT ![t] = "idle"]
        /\ UNCHANGED <<still, maySeq, sf, clock, millisecond, sequence,
                       mayRead, calls, burst, chk, atRead>>

(***************************************************************************)
(* String (src/snowflake.go:107-110).  It takes no lock: its read of       *)
(* s.sequence races with the writes of NextID and may see any value in     *)
(* maySeq[t]; the three other fields are only written by the constructor.  *)
(***************************************************************************)
\* String that also clears the sequence it printed
StringResets(t) ==
    LET g == GenOf(t)
    IN  /\ pc[t] = "idle"
        /\ \E seq \in maySeq[t] :
              str' = [start_time |-> sf[g].startTime,
                      data_center |-> sf[g].dataCenterID,
                      worker_id |-> sf[g].workerID,
                      sequence |-> seq]
        /\ sf' = [sf EXCEPT ![g].sequence = 0]
        /\ UNCHANGED <<built, maySeq, clock, pc, millisecond, sequence,
                       mayRead, out, returned, calls, ghosts>>

String(t) ==
    LET g == GenOf(t)
    IN  /\ pc[t] = "idle"
        /\ \E seq \in maySeq[t] :
              str' = [start_time |-> sf[g].startTime,
                      data_center |-> sf[g].dataCenterID,
                      worker_id |-> sf[g].workerID,
                      sequence |-> seq]
        /\ UNCHANGED <<built, maySeq, sf, clock, pc, millisecond, sequence,
                       mayRead, out, returned, calls, ghosts>>

\* the clock of g's host moves forward to one of vals
Tick(g, vals) ==
    /\ \E v \in vals : I64Lt(clock[g], v) /\ clock' = [clock EXCEPT ![g] = v]
    /\ UNCHANGED <<still, maySeq, sf, pc, millisecond, sequence, mayRead, out,
                   returned, calls, ghosts>>

\* the clock of g's host is set back to one of vals
ClockBack(g, vals) ==
    /\ \E v \in vals : I64Lt(v, clock[g]) /\ clock' = [clock EXCEPT ![g] = v]
    /\ UNCHANGED <<still, maySeq, sf, pc, millisecond, sequence, mayRead, out,
                   returned, calls, ghosts>>

(***************************************************************************)
(* Initial states.  A generator starts as NewWith leaves it (cold), or as  *)
(* sequenceMask + 1 sequential calls within the millisecond at leave it    *)
(* (warm): the last of them returned sequence sequenceMask.                *)
(***************************************************************************)
\* arguments of NewWith: <<ids, what machineID() returns>>
IdArgs == {<<<<>>, <<0, 0>>>>, <<<<>>, <<168, 37>>>>, <<<<37>>, <<0, 0>>>>,
           <<<<0, 1>>, <<0, 0>>>>, <<<<0, 2>>, <<0, 0>>>>}

\* the interface addresses of the host are not part of the run
NoLookup == [err |-> FALSE, addrs |-> <<>>]

Cold(startTime, arg, at) ==
    [sf |-> NewWith(startTime, arg[1], arg[2]),
     clock |-> at,
     lastRet |-> NoID,
     olderMax |-> NoID,
     burst |-> [ms |-> I64Zero, n |-> 0, fresh |-> FALSE],
     built |-> [via |-> "NewWith", at |-> at, now |-> <<0, 0>>, zone |-> 0,
                issued |-> 0, ids |-> arg[1], host |-> arg[2],
                lookup |-> NoLookup]]

Warm(startTime, arg, at) ==
    LET s == NewWith(startTime, arg[1], arg[2])
    IN  [sf |-> [s EXCEPT !.lastTimestamp = at, !.sequence = sequenceMask],
         clock |-> at,
         lastRet |-> MakeID(s, at, sequenceMask),
         olderMax |-> MakeID(s, at, sequenceMask - 1),
         burst |-> [ms |-> at, n |-> sequenceMask + 1, fresh |-> TRUE],
         built |-> [via |-> "NewWith", at |-> at, now |-> <<0, 0>>,
                    zone |-> 0, issued |-> sequenceMask + 1, ids |-> arg[1],
                    host |-> arg[2], lookup |-> NoLookup]]

ColdStarts(epochs, args) ==
    {Cold(e, a, Ms(1)) : e \in epochs, a \in args}

WarmStarts(epochs, args) ==
    {Warm(e, a, Ms(1)) : e \in epochs, a \in args}

\* generator 2 where no goroutine calls it
Idle2 == Cold(Ms(0), <<<<0, 2>>, <<0, 0>>>>, Ms(1))

\* callers: the goroutines that take part in the run
InitWith(g1, g2, callers) ==
    /\ sf = <<g1.sf, g2.sf>>
    /\ clock = <<g1.clock, g2.clock>>
    /\ lastRet = <<g1.lastRet, g2.lastRet>>
    /\ olderMax = <<g1.olderMax, g2.olderMax>>
    /\ burst = <<g1.burst, g2.burst>>
    /\ pc = [t \in Threads |-> "idle"]
    /\ millisecond = [t \in Threads |-> I64Zero]
    /\ sequence = [t \in Threads |-> 0]
    /\ mayRead = [t \in callers |->
                    {IF GenOf(t) = 1 THEN g1.sf.lastTimestamp
                     ELSE g2.sf.lastTimestamp}]
    /\ out = [t \in Threads |-> NoOut]
    /\ returned = <<<<>>, <<>>>>
    /\ calls = 0
    /\ chk = [t \in Threads |-> <<I64Zero, 0>>]
    /\ atRead = [t \in Threads |->
                    [ms |-> I64Zero, last |-> I64Zero, nret |-> 0]]
    /\ maySeq = [t \in callers |->
                    {IF GenOf(t) = 1 THEN g1.sf.sequence ELSE g2.sf.sequence}]
    /\ str = NoStr
    /\ built = <<g1.built, g2.built>>

(***************************************************************************)
(* Hosts and construction instants.                                        *)
(***************************************************************************)
\* 2024-01-01: 54 years and 13 leap days after 1970-01-01
Day0 == 54 * 365 + 13

\* midnight, early and late in the day, the last millisecond of the day
Instants == {<<Day0, ms>> : ms \in {0, 4 * HourMs, 19 * HourMs, DayMs - 1}}

\* time zones of the host: Los Angeles, UTC, Shanghai
Zones == {h * HourMs : h \in {0 - 8, 0, 8}}

\* loopback, IPv6, private IPv4 and IPv4-mapped addresses of an interface
HostIPs ==
    {<<127, 0, 0, 1>>,
     IPv6loopback,
     <<254, 128, 0, 0, 0, 0, 0, 0, 0, 0, 0, 0, 0, 0, 0, 1>>,
     <<192, 168, 3, 37>>,
     <<10, 0, 200, 9>>,
     <<0, 0, 0, 0, 0, 0, 0, 0, 0, 0, 255, 255, 10, 0, 7, 77>>}

RECURSIVE SeqsUpTo(_, _)
\* the sequences over S of length at most n
SeqsUpTo(S, n) ==
    IF n = 0 THEN {<<>>}
    ELSE LET shorter == SeqsUpTo(S, n - 1)
         IN  shorter \cup {Append(q, x) : q \in shorter, x \in S}

\* results of net.InterfaceAddrs(): every address it returns is a *net.IPNet
Lookups ==
    {[err |-> TRUE, addrs |-> <<>>]}
        \cup {[err |-> FALSE, addrs |-> as] :
                as \in SeqsUpTo({[ipnet |-> TRUE, ip |-> ip] : ip \in HostIPs},
                                MaxAddrs)}

\* identity arguments of NewWith
IdInputs == {<<>>, <<37>>, <<255>>, <<0, 1>>, <<200, 33>>, <<1, 2, 3>>}

\* a generator as New() leaves it at the instant now
StartNew(now, zone, lookup) ==
    [sf |-> New(now, zone, lookup),
     clock |-> UnixMs(now),
     lastRet |-> NoID,
     olderMax |-> NoID,
     burst |-> [ms |-> I64Zero, n |-> 0, fresh |-> FALSE],
     built |-> [via |-> "New", at |-> UnixMs(now), now |-> now, zone |-> zone,
                issued |-> 0, ids |-> <<>>, host |-> machineID(lookup),
                lookup |-> lookup]]

\* a generator as NewWith(startTime, ids...) leaves it at the instant now
StartNewWith(startTime, ids, now, zone, lookup) ==
    [sf |-> NewWith(UnixMs(startTime), ids, machineID(lookup)),
     clock |-> UnixMs(now),
     lastRet |-> NoID,
     olderMax |-> NoID,
     burst |-> [ms |-> I64Zero, n |-> 0, fresh |-> FALSE],
     built |-> [via |-> "NewWith", at |-> UnixMs(now), now |-> now,
                zone |-> zone, issued |-> 0, ids |-> ids,
                host |-> machineID(lookup),
                lookup |-> lookup]]

(***************************************************************************)
(* Spec: NThreads goroutines call NextID on one generator; its clock never *)
(* goes back; every returned ID is remembered.                             *)
(***************************************************************************)
Init ==
    \E g1 \in ColdStarts(Epochs, {<<<<>>, <<168, 37>>>>})
                \cup WarmStarts(Epochs, {<<<<>>, <<168, 37>>>>}) :
        InitWith(g1, Idle2, 1 .. NThreads)

Next ==
    \/ \E t \in 1 .. NThreads :
          \/ ReadClock(t, TRUE)
          \/ Compare(t)
          \/ Lock(t)
          \/ Update(t)
          \/ Spin(t)
          \/ StoreUnlock(t)
          \/ Return(t, TRUE)
    \/ Tick(1, ClockVals)

Spec == Init /\ [][Next]_vars

(***************************************************************************)
(* SpecSeq: one caller, each call finishing before the next starts, from   *)
(* construction on, with no bound on the calls; the clock never goes back. *)
(***************************************************************************)
InitSeq ==
    \E g1 \in ColdStarts(Epochs, {<<<<37>>, <<0, 0>>>>}) :
        InitWith(g1, Idle2, {1})

NextSeq ==
    \/ ReadClock(1, FALSE)
    \/ Compare(1)
    \/ Lock(1)
    \/ Update(1)
    \/ Spin(1)
    \/ StoreUnlock(1)
    \/ Return(1, FALSE)
    \/ Tick(1, NearClock)

SpecSeq == InitSeq /\ [][NextSeq]_vars

(***************************************************************************)
(* SpecBack: one caller, each call finishing before the next starts; the   *)
(* clock can move forward and be set back, over the near and the far       *)
(* values; every returned ID is remembered.                                *)
(***************************************************************************)
InitBack ==
    \E g1 \in ColdStarts(Epochs, IdArgs) \cup WarmStarts(Epochs, IdArgs) :
        InitWith(g1, Idle2, {1})

NextBack ==
    \/ ReadClock(1, TRUE)
    \/ Compare(1)
    \/ Lock(1)
    \/ Update(1)
    \/ Spin(1)
    \/ StoreUnlock(1)
    \/ Return(1, TRUE)
    \/ Tick(1, ClockVals)
    \/ ClockBack(1, ClockVals)

SpecBack == InitBack /\ [][NextBack]_vars

(***************************************************************************)
(* SpecCross: two generators on two hosts, each with its own clock, which  *)
(* can move either way; every returned ID is remembered.                   *)
(***************************************************************************)
InitCross ==
    \E g1 \in ColdStarts(Epochs, {<<<<0, 1>>, <<0, 0>>>>})
                \cup WarmStarts(Epochs, {<<<<0, 1>>, <<0, 0>>>>}),
       g2 \in ColdStarts({Ms(0)}, {<<<<>>, <<0, 0>>>>, <<<<37>>, <<0, 0>>>>}) :
        /\ <<g1.sf.dataCenterID, g1.sf.workerID>>
              # <<g2.sf.dataCenterID, g2.sf.workerID>>
        /\ InitWith(g1, g2, {1, Peer})

NextCross ==
    \/ \E t \in {1, Peer} :
          \/ ReadClock(t, TRUE)
          \/ Compare(t)
          \/ Lock(t)
          \/ Update(t)
          \/ Spin(t)
          \/ StoreUnlock(t)
          \/ Return(t, TRUE)
    \/ \E g \in Gens :
          \/ Tick(g, NearClock)
          \/ ClockBack(g, NearClock)

SpecCross == InitCross /\ [][NextCross]_vars

(***************************************************************************)
(* SpecNew: a generator built by New() or by NewWith() on a host with its  *)
(* time zone and its interface addresses, at an instant of the day; then   *)
(* one caller, each call finishing before the next starts, while the clock *)
(* moves on from the instant of construction.                              *)
(***************************************************************************)
\* the host whose lookup NewWith does not make, having been given ids
LanHost == [err |-> FALSE,
            addrs |-> <<[ipnet |-> TRUE, ip |-> <<192, 168, 3, 37>>]>>]

\* the generator after sequenceMask + 1 sequential calls within the
\* millisecond of its construction
WarmUp(g) ==
    [g EXCEPT !.sf = [g.sf EXCEPT !.lastTimestamp = g.clock,
                                  !.sequence = sequenceMask],
              !.lastRet = MakeID(g.sf, g.clock, sequenceMask),
              !.olderMax = MakeID(g.sf, g.clock, sequenceMask - 1),
              !.burst = [ms |-> g.clock, n |-> sequenceMask + 1,
                         fresh |-> TRUE],
              !.built = [g.built EXCEPT !.issued = sequenceMask + 1]]

\* New() at every instant in every zone, and on every host
NewStarts ==
    LET timed == {StartNew(now, zone, LanHost) :
                    now \in Instants, zone \in Zones}
    IN  timed \cup {WarmUp(g) : g \in timed}
              \cup {StartNew(<<Day0, 4 * HourMs>>, 0, lookup) :
                        lookup \in Lookups}

\* NewWith() with every identity argument, and with none on every host
NewWithStarts ==
    {StartNewWith(<<Day0, 0>>, ids, now, 0, LanHost) :
        ids \in IdInputs \ {<<>>}, now \in Instants}
        \cup {StartNewWith(<<Day0, 0>>, <<>>, <<Day0, 4 * HourMs>>, 0, lookup) :
                lookup \in Lookups}

InitNew ==
    \E g1 \in NewStarts \cup NewWithStarts : InitWith(g1, Idle2, {1})

NextNew ==
    \/ ReadClock(1, TRUE)
    \/ Compare(1)
    \/ Lock(1)
    \/ Update(1)
    \/ Spin(1)
    \/ StoreUnlock(1)
    \/ Return(1, TRUE)
    \/ Tick(1, {I64Add(built[1].at, I64(k)) : k \in 1 .. MaxTick})

SpecNew == InitNew /\ [][NextNew]_vars

(***************************************************************************)
(* SpecStr: two goroutines call NextID and String on one generator, as the *)
(* goroutines of TestNextID do; the clock never goes back.                 *)
(***************************************************************************)
InitStr ==
    \E g1 \in ColdStarts({Ms(0)}, {<<<<>>, <<168, 37>>>>})
                \cup WarmStarts({Ms(0)}, {<<<<>>, <<168, 37>>>>}) :
        InitWith(g1, Idle2, {1, 2})

NextStr ==
    \/ \E t \in {1, 2} :
          \/ ReadClock(t, TRUE)
          \/ Compare(t)
          \/ Lock(t)
          \/ Update(t)
          \/ Spin(t)
          \/ StoreUnlock(t)
          \/ Return(t, TRUE)
          \/ String(t)
    \/ Tick(1, NearClock)

SpecStr == InitStr /\ [][NextStr]_vars

(***************************************************************************)
(* SpecWait: two goroutines call NextID on one generator, fresh or with    *)
(* the sequence of the current millisecond exhausted; the clock never goes *)
(* back.  SpecFair adds the scheduling the Go runtime gives: a goroutine   *)
(* inside NextID that can take a step, the Lock of line 79 included, takes *)
(* one, and the clock of the host moves on.  (sync.Mutex promises more: a  *)
(* goroutine that keeps waiting gets the mutex even if it is free only now *)
(* and then.)                                                              *)
(***************************************************************************)
InitWait ==
    \E g1 \in ColdStarts({Ms(0)}, {<<<<>>, <<168, 37>>>>})
                \cup WarmStarts({Ms(0)}, {<<<<>>, <<168, 37>>>>}) :
        InitWith(g1, Idle2, {1, 2})

NextWait ==
    \/ \E t \in {1, 2} :
          \/ ReadClock(t, TRUE)
          \/ Compare(t)
          \/ Lock(t)
          \/ Update(t)
          \/ Spin(t)
          \/ StoreUnlock(t)
          \/ Return(t, TRUE)
    \/ Tick(1, NearClock)

SpecWait == InitWait /\ [][NextWait]_vars

\* the steps of a NextID call between its clock read and its return
Running(t) ==
    \/ Compare(t)
    \/ Lock(t)
    \/ Update(t)
    \/ Spin(t)
    \/ StoreUnlock(t)

\* the step Return(t, TRUE), by what it does to pc
Returning(t) ==
    /\ pc[t] = "ret"
    /\ pc' = [pc EXCEPT ![t] = "idle"]

Fairness ==
    /\ \A t \in {1, 2} : WF_vars(Running(t)) /\ WF_pc(Returning(t))
    /\ WF_vars(Tick(1, NearClock))

SpecFair == SpecWait /\ Fairness

(***************************************************************************)
(* Reading an ID back, by arithmetic on its limbs.                         *)
(***************************************************************************)
\* id >> 22, for an id that is not negative
IdElapsed(id) == <<0, id[1], id[2]>>

\* bits 17-21
IdDataCenter(id) == (id[3] \div 2^17) % 2^5

\* bits 12-16
IdWorker(id) == (id[3] \div 2^12) % 2^5

\* bits 0-11
IdSequence(id) == id[3] % 2^12

\* 0 <= e < 2^41
InRange(e) == ~I64Neg(e) /\ I64Lt(e, Span)

\* the elapsed time of the call that t finished last
ElapsedOf(t) == I64Sub(out[t].ms, sf[GenOf(t)].startTime)

\* the call that t made last read a clock earlier than lastTimestamp
ReadBack(t) == I64Lt(atRead[t].ms, atRead[t].last)

(***************************************************************************)
(* The claims.                                                             *)
(***************************************************************************)
\* C1 (Spec): no two NextID calls on one generator, sequential or concurrent,
\* return the same ID while the clock never goes back.
C1_Unique ==
    \A i, j \in DOMAIN returned[1] :
        i # j => returned[1][i] # returned[1][j]

C3_Atomic ==
    \A t \in 1 .. NThreads :
        pc[t] \in {"lock", "update"}
            => chk[t] = <<sf[1].lastTimestamp, sf[1].sequence>>

\* C4 (Spec): every write to lastTimestamp stores a value greater than or equal
\* to the one it replaces, while the clock never goes back.
C4_NonDecreasing ==
    [][I64Le(sf[1].lastTimestamp, sf'[1].lastTimestamp)]_vars

\* C5 (SpecBack): a call that read a clock earlier than the recorded
\* lastTimestamp never gets past the comparison: it ends in the panic and no
\* ID is returned.
C5_BackwardPanics ==
    ReadBack(1) =>
        /\ \/ pc[1] = "check"
           \/ pc[1] = "idle" /\ out[1].kind = "panic"
        /\ Len(returned[1]) = atRead[1].nret

\* C5 witness: after an ID was returned the clock was set back, and the next
\* call panicked.
C5_Witness ==
    /\ ReadBack(1)
    /\ pc[1] = "idle"
    /\ out[1].kind = "panic"
    /\ Len(returned[1]) > 0

\* C6 (Spec): while the clock never goes back no NextID call panics.
C6_NoPanic == \A t \in 1 .. NThreads : out[t].kind # "panic"

\* C7 (SpecCross): two generators whose (dataCenterID, workerID) differ never
\* return the same ID, whatever their epochs and clocks.
C7_Disjoint ==
    \A i \in DOMAIN returned[1], j \in DOMAIN returned[2] :
        returned[1][i] # returned[2][j]

\* C7 witness: the two generators returned IDs that agree on every bit outside
\* the identity fields.
C7_Witness ==
    \E i \in DOMAIN returned[1], j \in DOMAIN returned[2] :
        /\ returned[1][i][1] = returned[2][j][1]
        /\ returned[1][i][2] = returned[2][j][2]
        /\ IdSequence(returned[1][i]) = IdSequence(returned[2][j])

\* C8 (SpecSeq): of the calls that read the same millisecond one after another,
\* the first in a new millisecond, call k <= sequenceMask + 1 returns sequence
\* k - 1 with that millisecond, and call sequenceMask + 2 waits for the clock
\* to pass lastTimestamp and returns sequence 0 with a later millisecond.
C8_Rollover ==
    LET b == burst[1]
    IN  b.fresh =>
          /\ (pc[1] = "idle" /\ out[1].kind = "id" /\ b.n <= sequenceMask + 1)
                => out[1].seq = b.n - 1 /\ out[1].ms = b.ms
          /\ pc[1] = "spin" => b.n = sequenceMask + 2
          /\ (pc[1] \in {"store", "ret"} /\ b.n = sequenceMask + 2)
                => I64Lt(b.ms, millisecond[1]) /\ sf[1].sequence = 0
          /\ (pc[1] = "idle" /\ out[1].kind = "id" /\ b.n = sequenceMask + 2)
                => out[1].seq = 0 /\ I64Lt(b.ms, out[1].ms)

\* C8 witness: call sequenceMask + 2 of a burst has returned.
C8_Witness ==
    /\ burst[1].fresh
    /\ burst[1].n = sequenceMask + 2
    /\ pc[1] = "idle"
    /\ out[1].kind = "id"
    /\ out[1].seq = 0

\* C9 (SpecBack): bits 17-21 of a returned ID are the dataCenterID, bits 12-16
\* the workerID, bits 0-11 the sequence the call captured, a value in
\* 0 .. 4095, and for an elapsed time in [0, 2^41) the ID shifted right by 22
\* is the call's millisecond minus the epoch's.
C9_Fields ==
    out[1].kind = "id" =>
        /\ IdDataCenter(out[1].id) = sf[1].dataCenterID
        /\ IdWorker(out[1].id) = sf[1].workerID
        /\ IdSequence(out[1].id) = out[1].seq
        /\ out[1].seq \in 0 .. 4095
        /\ InRange(ElapsedOf(1)) => IdElapsed(out[1].id) = ElapsedOf(1)

\* C9 witness: an ID with every field non-zero and the greatest elapsed time
\* of the range.
C9_Witness ==
    /\ out[1].kind = "id"
    /\ ElapsedOf(1) = I64Sub(Span, I64(1))
    /\ out[1].seq > 0
    /\ sf[1].dataCenterID > 0
    /\ sf[1].workerID > 0

\* C10 (SpecBack): a returned ID is not negative when the elapsed time is in
\* [0, 2^41).
C10_NonNegative ==
    (out[1].kind = "id" /\ InRange(ElapsedOf(1))) => ~I64Neg(out[1].id)

\* C10 witness: an ID of the greatest elapsed time of the range; it has bit 62
\* set.
C10_Witness ==
    /\ out[1].kind = "id"
    /\ ElapsedOf(1) = I64Sub(Span, I64(1))
    /\ out[1].id[1] >= HiLimb \div 4

\* C11 (SpecNew): New() sets the epoch to the midnight UTC of the UTC day of
\* the construction instant: in every time zone of the host the epoch is at
\* most the instant and the instant is less than 24 hours after it, and the
\* elapsed time of every ID issued afterwards is not negative.
C11_EpochOfDay ==
    built[1].via = "New" =>
        /\ sf[1].startTime = UnixMs(<<built[1].now[1], 0>>)
        /\ I64Le(sf[1].startTime, built[1].at)
        /\ I64Lt(built[1].at, I64Add(sf[1].startTime, I64Of(DayMs)))
        /\ out[1].kind = "id" => ~I64Neg(ElapsedOf(1))

\* the identity values construction was given, after NewWith chose among them
Supplied(b) ==
    IF Len(b.ids) >= 2 THEN <<b.ids[1], b.ids[2]>>
    ELSE IF Len(b.ids) = 1 THEN <<b.ids[1], b.ids[1]>>
    ELSE b.host

\* C12 (SpecNew): however the generator was built, from explicit values or from
\* the network address, dataCenterID and workerID are in 0 .. 31 and are the
\* low five bits of the values they come from (37 becomes 5); construction
\* always yields a generator.
C12_Masked ==
    /\ sf[1].dataCenterID \in 0 .. 31
    /\ sf[1].workerID \in 0 .. 31
    /\ sf[1].dataCenterID = Supplied(built[1])[1] % 32
    /\ sf[1].workerID = Supplied(built[1])[2] % 32
    /\ built[1].ids = <<37>> => sf[1].dataCenterID = 5 /\ sf[1].workerID = 5
    /\ DOMAIN sf[1] = {"mutex", "sequence", "dataCenterID", "workerID",
                       "lastTimestamp", "startTime"}

\* C12 witness: a generator built with the value 255, above the 5-bit range,
\* has returned an ID whose identity fields are 31.
C12_Witness ==
    /\ built[1].ids = <<255>>
    /\ out[1].kind = "id"
    /\ IdDataCenter(out[1].id) = 31
    /\ IdWorker(out[1].id) = 31

\* C13 (SpecNew): NewWith with no identity value takes both fields from
\* machineID(); with one value v both fields are v masked; with two values the
\* dataCenterID is the first and the workerID the second, masked.
C13_Arity ==
    built[1].via = "NewWith" =>
        LET ids == built[1].ids
            id == <<sf[1].dataCenterID, sf[1].workerID>>
        IN  /\ Len(ids) = 0 =>
                  id = <<machineID(built[1].lookup)[1] % 32,
                         machineID(built[1].lookup)[2] % 32>>
            /\ Len(ids) = 1 => id = <<ids[1] % 32, ids[1] % 32>>
            /\ Len(ids) = 2 => id = <<ids[1] % 32, ids[2] % 32>>

\* C13 witness: a generator built with the two values 200 and 33 has returned
\* an ID with dataCenterID 8 and workerID 1.
C13_Witness ==
    /\ built[1].via = "NewWith"
    /\ built[1].ids = <<200, 33>>
    /\ out[1].kind = "id"
    /\ IdDataCenter(out[1].id) = 8
    /\ IdWorker(out[1].id) = 1

C15_Immutable ==
    [][/\ sf'[1].startTime = sf[1].startTime
       /\ sf'[1].dataCenterID = sf[1].dataCenterID
       /\ sf'[1].workerID = sf[1].workerID
       /\ str' # str =>
             /\ sf'[1].lastTimestamp = sf[1].lastTimestamp
             /\ sf'[1].sequence = sf[1].sequence]_vars

\* C15 witness: a String call printed the epoch and the sequence 1 that two
\* NextID calls within one millisecond left, while a goroutine was inside
\* NextID, holding the mutex.
C15_Witness ==
    /\ str.sequence = 1
    /\ str.start_time = sf[1].startTime
    /\ Len(returned[1]) >= 2
    /\ sf[1].mutex # 0

\* two IDs carry the same timestamp
SameMs(a, b) == a[1] = b[1] /\ a[2] = b[2]

\* the IDs of the run that carry the timestamp of returned[1][i]
SameMsAs(i) ==
    {j \in DOMAIN returned[1] : SameMs(returned[1][j], returned[1][i])}

\* the timestamp of returned[1][i] is one the generator issued IDs for before
\* the run began
IssuedBefore(i) ==
    /\ built[1].issued > 0
    /\ SameMs(returned[1][i], MakeID(sf[1], built[1].at, 0))

\* C16 (Spec): sequence is always in 0 .. 4095; the update of a call whose
\* millisecond is greater than lastTimestamp sets sequence to 0, the update of
\* a call whose millisecond equals lastTimestamp sets it to (sequence + 1) mod
\* 4096, and the call returns the sequence its update left; so, once every
\* call has finished, the n IDs issued for one millisecond carry the sequences
\* 0 .. n - 1: the k-th carries k - 1.
C16_Counter ==
    /\ [](sf[1].sequence \in 0 .. 4095)
    /\ [][\A t \in 1 .. NThreads :
            /\ (pc[t] = "update" /\ pc'[t] # "update") =>
                  /\ I64Lt(sf[1].lastTimestamp, millisecond[t])
                        => sf'[1].sequence = 0
                  /\ millisecond[t] = sf[1].lastTimestamp
                        => sf'[1].sequence = (sf[1].sequence + 1) % 4096
            /\ (pc[t] = "store" /\ pc'[t] # "store") =>
                  sequence'[t] = sf[1].sequence
            /\ (pc[t] = "ret" /\ pc'[t] # "ret") =>
                  out'[t].seq = sequence[t]]_vars
    /\ []((\A t \in 1 .. NThreads : pc[t] = "idle") =>
            \A i \in DOMAIN returned[1] :
                ~IssuedBefore(i) =>
                    {IdSequence(returned[1][j]) : j \in SameMsAs(i)}
                        = 0 .. (Cardinality(SameMsAs(i)) - 1))

\* C19 (SpecBack): a call that ends in the backward-clock panic has changed
\* neither lastTimestamp nor sequence and leaves the mutex free; a call that
\* then reads a clock at or above lastTimestamp finds the mutex free and
\* returns an ID.
C19_PanicLeavesState ==
    /\ [][(pc[1] = "check" /\ out'[1].kind = "panic" /\ pc'[1] = "idle") =>
            /\ sf'[1] = sf[1]
            /\ sf[1].lastTimestamp = atRead[1].last]_vars
    /\ []((pc[1] = "idle" /\ out[1].kind = "panic") => sf[1].mutex = 0)
    /\ [](pc[1] = "lock" => sf[1].mutex = 0)
    /\ []((pc[1] = "idle" /\ calls > 0 /\ ~ReadBack(1)) => out[1].kind = "id")

\* C19 witness: of three calls the second panicked, the clock having been set
\* back one millisecond, and the third, made when the clock was at
\* lastTimestamp again, returned the sequence that follows the first call's.
C19_Witness ==
    /\ calls = 3
    /\ pc[1] = "idle"
    /\ out[1].kind = "id"
    /\ Len(returned[1]) = 2
    /\ SameMs(returned[1][1], returned[1][2])
    /\ IdSequence(returned[1][1]) = 0
    /\ IdSequence(returned[1][2]) = 1

\* C14 (SpecFair): under fair scheduling and a clock that moves on, every
\* NextID call that has started ends, with an ID or in the panic (so its
\* busy-wait ends and its wait for the mutex ends), and a mutex that is held
\* is released.
C14_Terminates ==
    /\ \A t \in {1, 2} :
          (pc[t] # "idle")
              ~> (pc[t] = "idle" /\ out[t].kind \in {"id", "panic"})
    /\ (sf[1].mutex # 0) ~> (sf[1].mutex = 0)

\* C14 witness: a call that found the sequence of its millisecond exhausted
\* waited for the next millisecond and returned its first ID, and the other
\* goroutine, which had been waiting for the mutex, holds it.
C14_Witness ==
    /\ built[1].issued > 0
    /\ pc[1] = "idle"
    /\ out[1].kind = "id"
    /\ atRead[1].ms = built[1].at
    /\ I64Lt(built[1].at, out[1].ms)
    /\ out[1].seq = 0
    /\ pc[2] = "update"
    /\ sf[1].mutex = 2

\* C17 (SpecWait): while a call is in the busy-wait, and until it has stored
\* its millisecond in lastTimestamp, it holds the mutex: no step changes
\* lastTimestamp or sequence, and no other call gets past Lock or captures a
\* sequence value.
C17_WaitHoldsLock ==
    [][\A t \in {1, 2} :
        (pc[t] \in {"spin", "store"} /\ pc'[t] \in {"spin", "store"}) =>
            /\ sf[1].mutex = t
            /\ sf'[1].mutex = t
            /\ sf'[1].lastTimestamp = sf[1].lastTimestamp
            /\ sf'[1].sequence = sf[1].sequence
            /\ \A u \in {1, 2} \ {t} :
                  /\ sequence'[u] = sequence[u]
                  /\ pc[u] \notin {"update", "spin", "store"}
                  /\ pc[u] = "lock" => pc'[u] = "lock"]_vars

\* C17 witness: one goroutine is in the busy-wait, the clock has moved past
\* lastTimestamp, and the other goroutine is still waiting for the mutex.
C17_Witness ==
    /\ pc[1] = "spin"
    /\ I64Le(millisecond[1], sf[1].lastTimestamp)
    /\ I64Lt(sf[1].lastTimestamp, clock[1])
    /\ pc[2] = "lock"
    /\ sf[1].mutex = 1

=============================================================================
